---- MODULE Spec2Model ----
(***************************************************************************)
(* A model of app.py, a Flask file manager: five request handlers (index,  *)
(* upload_file, download_file, delete_file, create_folder) over a          *)
(* directory tree UPLOAD_PATH = BASE_DIR/uploads, with the extension       *)
(* classifier get_category_folder and the allow-list test allowed_file.    *)
(*                                                                         *)
(* Strings are sequences of one-character strings, so that rsplit, lower   *)
(* and secure_filename are computed character by character.  A path is a   *)
(* sequence of names; canonical paths start at BASE_DIR, which is the top  *)
(* of the modelled namespace (".." of the top is the top, as for "/").     *)
(***************************************************************************)
EXTENDS Integers, Sequences, FiniteSets, TLC

VARIABLES fs, resp, prev, cfile, cres

vars == <<fs, resp, prev, cfile, cres>>

(***************************************************************************)
(* Characters and strings                                                  *)
(***************************************************************************)
LowerCase == <<"a","b","c","d","e","f","g","h","i","j","k","l","m",
               "n","o","p","q","r","s","t","u","v","w","x","y","z">>
UpperCase == <<"A","B","C","D","E","F","G","H","I","J","K","L","M",
               "N","O","P","Q","R","S","T","U","V","W","X","Y","Z">>
Digits == <<"0","1","2","3","4","5","6","7","8","9">>

Range(s) == {s[i] : i \in DOMAIN s}

\* str.lower() on one character
LowerChar(c) ==
    IF \E i \in DOMAIN UpperCase : UpperCase[i] = c
    THEN LowerCase[CHOOSE i \in DOMAIN UpperCase : UpperCase[i] = c]
    ELSE c

\* str.lower()
Lower(s) == [i \in DOMAIN s |-> LowerChar(s[i])]

\* index of the last occurrence of character c in s, 0 when there is none
RECURSIVE RFind(_, _, _)
RFind(s, c, i) ==
    IF i = 0 THEN 0
    ELSE IF s[i] = c THEN i
    ELSE RFind(s, c, i - 1)

\* s.rsplit(c, 1)[1], for s containing c
RSplitLast(s, c) == SubSeq(s, RFind(s, c, Len(s)) + 1, Len(s))

(***************************************************************************)
(* get_category_folder and allowed_file                                    *)
(***************************************************************************)
Images == <<"I","m","a","g","e","s">>
Documents == <<"D","o","c","u","m","e","n","t","s">>
Videos == <<"V","i","d","e","o","s">>
Archives == <<"A","r","c","h","i","v","e","s">>
Others == <<"O","t","h","e","r","s">>

\* the dict, in insertion order; every extension carries its leading dot
FILE_CATEGORIES ==
    << [folder |-> Images,
        extensions |-> << <<".","p","n","g">>, <<".","j","p","g">>,
                          <<".","j","p","e","g">>, <<".","g","i","f">>,
                          <<".","s","v","g">> >>],
       [folder |-> Documents,
        extensions |-> << <<".","p","d","f">>, <<".","d","o","c","x">>,
                          <<".","t","x","t">>, <<".","p","p","t","x">>,
                          <<".","x","l","s","x">> >>],
       [folder |-> Videos,
        extensions |-> << <<".","m","p","4">>, <<".","m","o","v">>,
                          <<".","a","v","i">>, <<".","m","k","v">> >>],
       [folder |-> Archives,
        extensions |-> << <<".","z","i","p">>, <<".","r","a","r">>,
                          <<".","t","a","r">>, <<".","g","z">> >>] >>

ALLOWED_EXTENSIONS ==
    { <<"t","x","t">>, <<"p","d","f">>, <<"p","n","g">>, <<"j","p","g">>,
      <<"j","p","e","g">>, <<"g","i","f">>, <<"z","i","p">>, <<"m","p","4">>,
      <<"d","o","c","x">>, <<"x","l","s","x">>, <<"y","m","l">>,
      <<"y","a","m","l">> }

\* the for loop of get_category_folder from entry i on
RECURSIVE CategoryFrom(_, _)
CategoryFrom(token, i) ==
    IF i > Len(FILE_CATEGORIES) THEN Others
    ELSE IF token \in Range(FILE_CATEGORIES[i].extensions)
         THEN FILE_CATEGORIES[i].folder
         ELSE CategoryFrom(token, i + 1)

\* get_category_folder with a seeded fault: the extension is not lower-cased
get_category_folder_nolower(filename) ==
    IF "." \in Range(filename)
    THEN CategoryFrom(<<".">> \o RSplitLast(filename, "."), 1)
    ELSE Others

get_category_folder(filename) ==
    IF "." \in Range(filename)
    THEN CategoryFrom(<<".">> \o Lower(RSplitLast(filename, ".")), 1)
    ELSE Others

allowed_file(filename) ==
    /\ "." \in Range(filename)
    /\ Lower(RSplitLast(filename, ".")) \in ALLOWED_EXTENSIONS

(***************************************************************************)
(* werkzeug.utils.secure_filename, as app.py uses it                       *)
(***************************************************************************)
SafeChars == Range(LowerCase) \cup Range(UpperCase) \cup Range(Digits)
             \cup {"_", ".", "-"}

\* filename.replace(os.sep, " ")
ReplaceSep(s) == [i \in DOMAIN s |-> IF s[i] = "/" THEN " " ELSE s[i]]

\* "_".join(s.split()), from character i on, out being the text joined so far
RECURSIVE JoinWords(_, _, _)
JoinWords(s, i, out) ==
    IF i > Len(s) THEN out
    ELSE IF s[i] = " " THEN JoinWords(s, i + 1, out)
    ELSE IF out # <<>> /\ i > 1 /\ s[i - 1] = " "
         THEN JoinWords(s, i + 1, out \o <<"_", s[i]>>)
         ELSE JoinWords(s, i + 1, Append(out, s[i]))

RECURSIVE LStrip(_, _)
LStrip(s, cs) == IF s # <<>> /\ Head(s) \in cs THEN LStrip(Tail(s), cs) ELSE s

RECURSIVE RStrip(_, _)
RStrip(s, cs) ==
    IF s # <<>> /\ s[Len(s)] \in cs
    THEN RStrip(SubSeq(s, 1, Len(s) - 1), cs)
    ELSE s

secure_filename(filename) ==
    LET joined == JoinWords(ReplaceSep(filename), 1, <<>>)
        ascii == SelectSeq(joined, LAMBDA c : c \in SafeChars)
    IN  RStrip(LStrip(ascii, {".", "_"}), {".", "_"})

(***************************************************************************)
(* Paths (pathlib.PurePath) and the directory tree                         *)
(***************************************************************************)
Dot == <<".">>
DotDot == <<".", ".">>

UploadsName == <<"u","p","l","o","a","d","s">>
AppPy == <<"a","p","p",".","p","y">>

BASE_DIR == <<>>
UPLOAD_PATH == <<UploadsName>>

\* PurePath parsing of the segments of a relative path: "." and empty segments
\* are dropped, ".." is kept
PathParts(segs) == SelectSeq(segs, LAMBDA s : s # Dot /\ s # <<>>)

\* PurePath.parent
Parent(p) == IF p = <<>> THEN <<>> ELSE SubSeq(p, 1, Len(p) - 1)

\* PurePath.name ("" for an empty relative path)
BaseName(p) == IF p = <<>> THEN <<>> ELSE p[Len(p)]

\* PurePath.is_relative_to: a prefix test on whole path components
is_relative_to(p, root) ==
    /\ Len(p) >= Len(root)
    /\ SubSeq(p, 1, Len(root)) = root

DirEntry == [kind |-> "dir", data |-> 0, target |-> <<>>]
FileEntry(d) == [kind |-> "file", data |-> d, target |-> <<>>]
LinkEntry(t) == [kind |-> "link", data |-> 0, target |-> t]

\* Path.resolve() (os.path.realpath, strict=False) of the components rest
\* read from the canonical path cur: a symbolic link is followed, ".." drops
\* the last component, a missing or non-directory component is kept as written
RECURSIVE Resolve(_, _, _)
Resolve(f, cur, rest) ==
    IF rest = <<>> THEN cur
    ELSE LET c == Head(rest)
             nxt == Append(cur, c)
         IN  IF c = DotDot THEN Resolve(f, Parent(cur), Tail(rest))
             ELSE IF nxt \in DOMAIN f /\ f[nxt].kind = "link"
                  THEN Resolve(f, <<>>, f[nxt].target \o Tail(rest))
                  ELSE Resolve(f, nxt, Tail(rest))

\* The kernel's path walk (stat when follow, lstat otherwise) of the components
\* rest from the existing directory cur: "ok" at an existing entry, "absent"
\* when only the last component is missing, "err" (ENOENT, ENOTDIR) otherwise
RECURSIVE Locate(_, _, _, _)
Locate(f, cur, rest, follow) ==
    IF rest = <<>> THEN [st |-> "ok", at |-> cur]
    ELSE LET c == Head(rest)
             t == Tail(rest)
             nxt == Append(cur, c)
         IN  IF c = DotDot THEN Locate(f, Parent(cur), t, follow)
             ELSE IF nxt \notin DOMAIN f
                  THEN [st |-> IF t = <<>> THEN "absent" ELSE "err", at |-> nxt]
             ELSE IF f[nxt].kind = "dir" THEN Locate(f, nxt, t, follow)
             ELSE IF f[nxt].kind = "file"
                  THEN [st |-> IF t = <<>> THEN "ok" ELSE "err", at |-> nxt]
             ELSE IF t = <<>> /\ ~follow THEN [st |-> "ok", at |-> nxt]
                  ELSE Locate(f, <<>>, f[nxt].target \o t, follow)

\* Path.exists(), Path.is_file(), Path.is_dir(): stat, following links
KindOf(f, lex) ==
    LET l == Locate(f, <<>>, lex, TRUE)
    IN  IF l.st = "ok" THEN f[l.at].kind ELSE "none"

exists(f, lex) == KindOf(f, lex) # "none"
is_file(f, lex) == KindOf(f, lex) = "file"
is_dir(f, lex) == KindOf(f, lex) = "dir"

Restrict(f, S) == [p \in S |-> f[p]]

\* the tree without the proper descendants of p
WithoutContents(f, p) ==
    Restrict(f, {q \in DOMAIN f : ~(Len(q) > Len(p) /\ is_relative_to(q, p))})

Put(f, p, e) == [q \in DOMAIN f \cup {p} |-> IF q = p THEN e ELSE f[q]]

(***************************************************************************)
(* Requests, responses and flashed messages                                *)
(***************************************************************************)
\* the volume holds at most MaxEntries entries; creating one more fails with
\* OSError (ENOSPC), which the handlers' "except Exception" clauses catch
MaxEntries == 7

Full(f) == Cardinality(DOMAIN f) >= MaxEntries

Request(op, path, files, folder_name) ==
    [op |-> op, path |-> path, files |-> files, folder_name |-> folder_name]

Flash(category, text, arg) == [category |-> category, text |-> text, arg |-> arg]

NoTarget == [route |-> "none", path |-> <<>>]

\* redirect(url_for(route, ...=path))
Redirect(route, path, flashes) ==
    [kind |-> "redirect", to |-> [route |-> route, path |-> path],
     flashes |-> flashes, at |-> <<>>, count |-> 0, rm |-> "none"]

\* what a handler leaves behind: the tree and the response
Outcome(f, r) == [fs |-> f, resp |-> r]

(***************************************************************************)
(* index                                                                   *)
(***************************************************************************)
\* the names iterdir() yields, with is_dir() of each
Listing(f, dir) ==
    {[name |-> BaseName(q), is_dir |-> is_dir(f, q)] :
        q \in {q \in DOMAIN f : Len(q) = Len(dir) + 1 /\ is_relative_to(q, dir)}}

index(f, req_path) ==
    LET abs_path == UPLOAD_PATH \o PathParts(req_path)
        current_dir == req_path
    IN  IF ~is_relative_to(Resolve(f, <<>>, abs_path), Resolve(f, <<>>, UPLOAD_PATH))
        THEN Outcome(f, Redirect("index", current_dir,
                 <<Flash("error", "Access Denied", <<>>)>>))
        ELSE IF ~exists(f, abs_path)
        THEN Outcome(f, Redirect("index", <<>>,
                 <<Flash("error", "Path not found", req_path)>>))
        ELSE IF is_file(f, abs_path)
        THEN Outcome(f, Redirect("download_file", req_path, <<>>))
        ELSE Outcome(f, [kind |-> "listing", to |-> NoTarget, flashes |-> <<>>,
                         at |-> Locate(f, <<>>, abs_path, TRUE).at,
                         count |-> Cardinality(Listing(f, Locate(f, <<>>, abs_path, TRUE).at)),
                         rm |-> "none"])

(***************************************************************************)
(* download_file                                                           *)
(***************************************************************************)
\* flask.send_from_directory: safe_join(directory, path), NotFound (404)
\* unless the joined path is a regular file, else the file is sent
send_from_directory(f, directory, path) ==
    LET joined == directory \o (IF path = <<>> THEN <<>> ELSE <<path>>)
    IN  IF is_file(f, joined)
        THEN [kind |-> "stream", to |-> NoTarget, flashes |-> <<>>,
              at |-> Locate(f, <<>>, joined, TRUE).at, count |-> 0, rm |-> "none"]
        ELSE [kind |-> "abort404", to |-> NoTarget, flashes |-> <<>>,
              at |-> <<>>, count |-> 0, rm |-> "none"]

download_file(f, filename) ==
    LET secure_name == secure_filename(BaseName(PathParts(filename)))
        directory == UPLOAD_PATH \o Parent(PathParts(filename))
    IN  Outcome(f, send_from_directory(f, directory, secure_name))

(***************************************************************************)
(* delete_file                                                             *)
(***************************************************************************)
\* os.rmdir(lex): the last component must name an empty directory
rmdir_ok(f, lex) ==
    LET l == Locate(f, <<>>, lex, FALSE)
    IN  /\ lex # <<>>
        /\ BaseName(lex) # DotDot
        /\ l.st = "ok"
        /\ f[l.at].kind = "dir"
        /\ \A q \in DOMAIN f : ~(Len(q) > Len(l.at) /\ is_relative_to(q, l.at))

\* shutil.rmtree(lex): refuses a symbolic link; otherwise removes everything
\* below the directory through its descriptor, then calls os.rmdir(lex).
\* raised tells whether an exception leaves rmtree.
rmtree(f, lex) ==
    LET l == Locate(f, <<>>, lex, FALSE)
        emptied == WithoutContents(f, l.at)
    IN  IF l.st # "ok" \/ f[l.at].kind # "dir"
        THEN [fs |-> f, raised |-> TRUE]
        ELSE IF rmdir_ok(emptied, lex)
        THEN [fs |-> Restrict(emptied, DOMAIN emptied \ {l.at}), raised |-> FALSE]
        ELSE [fs |-> emptied, raised |-> TRUE]

\* os.remove(lex): unlinks the entry the last component names
os_remove(f, lex) ==
    LET l == Locate(f, <<>>, lex, FALSE)
    IN  IF l.st = "ok" /\ f[l.at].kind # "dir"
        THEN [fs |-> Restrict(f, DOMAIN f \ {l.at}), raised |-> FALSE]
        ELSE [fs |-> f, raised |-> TRUE]

\* "rm" records which removal the handler called, "at" the resolved target
DeleteResponse(parent_path, flashes, at, rm) ==
    [kind |-> "redirect", to |-> [route |-> "index", path |-> parent_path],
     flashes |-> flashes, at |-> at, count |-> 0, rm |-> rm]

delete_file(f, filename) ==
    LET parts == PathParts(filename)
        item_path == UPLOAD_PATH \o parts
        parent_path == Parent(parts)
        resolved == Resolve(f, <<>>, item_path)
        removed == os_remove(f, item_path)
        tree == rmtree(f, item_path)
    IN  IF parts = <<>>
        \* item_path is UPLOAD_PATH, its parent is BASE_DIR: relative_to raises
        \* ValueError outside the try block
        THEN Outcome(f, [kind |-> "exception", to |-> NoTarget, flashes |-> <<>>,
                         at |-> resolved, count |-> 0, rm |-> "none"])
        ELSE IF ~is_relative_to(resolved, Resolve(f, <<>>, UPLOAD_PATH))
        THEN Outcome(f, DeleteResponse(parent_path,
                 <<Flash("error", "Security Error", <<>>)>>, resolved, "none"))
        ELSE IF is_file(f, item_path)
        THEN Outcome(removed.fs, DeleteResponse(parent_path,
                 <<IF removed.raised
                   THEN Flash("error", "Error deleting", BaseName(item_path))
                   ELSE Flash("success", "File deleted", BaseName(item_path))>>,
                 resolved, "remove"))
        ELSE IF is_dir(f, item_path)
        THEN Outcome(tree.fs, DeleteResponse(parent_path,
                 <<IF tree.raised
                   THEN Flash("error", "Error deleting", BaseName(item_path))
                   ELSE Flash("success", "Folder deleted", BaseName(item_path))>>,
                 resolved, "rmtree"))
        ELSE Outcome(f, DeleteResponse(parent_path, <<>>, resolved, "none"))

(***************************************************************************)
(* create_folder                                                           *)
(***************************************************************************)
\* Path.mkdir with a seeded fault: exist_ok is always taken as True
mkdir_exist_ok(f, lex, exist_ok) ==
    LET l == Locate(f, <<>>, lex, FALSE)
    IN  IF l.st = "ok"
        THEN [fs |-> f,
              result |-> IF is_dir(f, lex) THEN "exists" ELSE "FileExistsError"]
        ELSE IF l.st = "err" THEN [fs |-> f, result |-> "FileNotFoundError"]
        ELSE IF Full(f) THEN [fs |-> f, result |-> "OSError"]
        ELSE [fs |-> Put(f, l.at, DirEntry), result |-> "created"]

\* Path.mkdir(exist_ok=...) of lex: "created", "exists" (passed over when
\* exist_ok and the path is a directory), or the exception raised
mkdir(f, lex, exist_ok) ==
    LET l == Locate(f, <<>>, lex, FALSE)
    IN  IF l.st = "ok"
        THEN [fs |-> f,
              result |-> IF exist_ok /\ is_dir(f, lex) THEN "exists" ELSE "FileExistsError"]
        ELSE IF l.st = "err" THEN [fs |-> f, result |-> "FileNotFoundError"]
        ELSE IF Full(f) THEN [fs |-> f, result |-> "OSError"]
        ELSE [fs |-> Put(f, l.at, DirEntry), result |-> "created"]

create_folder(f, folder_name, target_path) ==
    LET safe_folder_name == secure_filename(folder_name)
        parent == UPLOAD_PATH \o PathParts(target_path)
        new_folder_path ==
            parent \o (IF safe_folder_name = <<>> THEN <<>> ELSE <<safe_folder_name>>)
        made == mkdir(f, new_folder_path, FALSE)
    IN  IF folder_name = <<>>
        THEN Outcome(f, Redirect("index", target_path,
                 <<Flash("warning", "Folder name cannot be empty", <<>>)>>))
        ELSE IF ~is_relative_to(Resolve(f, <<>>, parent), Resolve(f, <<>>, UPLOAD_PATH))
        THEN Outcome(f, Redirect("index", target_path,
                 <<Flash("error", "Security Error", <<>>)>>))
        ELSE Outcome(made.fs, Redirect("index", target_path,
                 <<CASE made.result \in {"created", "exists"} ->
                          Flash("success", "Folder created", safe_folder_name)
                     [] made.result = "FileExistsError" ->
                          Flash("error", "Folder already exists", safe_folder_name)
                     [] OTHER ->
                          Flash("error", "Error creating folder", <<>>)>>))

(***************************************************************************)
(* upload_file                                                             *)
(***************************************************************************)
\* category_path with a seeded fault: the folder is taken under the directory
\* the user was browsing
category_path_browsed(filename, target_path) ==
    UPLOAD_PATH \o PathParts(target_path) \o <<get_category_folder(filename)>>

\* steps 1 and 2 of the loop body: UPLOAD_PATH / destination_folder_name
category_path(filename, target_path) ==
    UPLOAD_PATH \o <<get_category_folder(filename)>>

\* FileStorage.save(dst): open(dst, "wb") and write the stream
save(f, dst, data) ==
    LET l == Locate(f, <<>>, dst, TRUE)
    IN  IF l.st = "err" THEN [fs |-> f, raised |-> TRUE]
        ELSE IF l.st = "ok"
        THEN IF f[l.at].kind = "file"
             THEN [fs |-> Put(f, l.at, FileEntry(data)), raised |-> FALSE]
             ELSE [fs |-> f, raised |-> TRUE]
        ELSE IF Full(f) THEN [fs |-> f, raised |-> TRUE]
        ELSE [fs |-> Put(f, l.at, FileEntry(data)), raised |-> FALSE]

\* the body of the try block for one allowed file
SaveOne(f, file, target_path) ==
    LET dir == category_path(file.filename, target_path)
        made == mkdir(f, dir, TRUE)
        filename == secure_filename(file.filename)
        dst == dir \o (IF filename = <<>> THEN <<>> ELSE <<filename>>)
    IN  IF made.result \notin {"created", "exists"}
        THEN [fs |-> f, raised |-> TRUE]
        ELSE save(made.fs, dst, file.data)

\* the for loop from file i on; acc carries the tree, success_count and the
\* flashed messages
RECURSIVE UploadLoop(_, _, _, _)
UploadLoop(files, target_path, i, acc) ==
    IF i > Len(files) THEN acc
    ELSE LET file == files[i]
             one == SaveOne(acc.fs, file, target_path)
         IN  IF file.filename # <<>> /\ allowed_file(file.filename)
             THEN UploadLoop(files, target_path, i + 1,
                    IF one.raised
                    THEN [fs |-> one.fs, count |-> acc.count,
                          flashes |-> Append(acc.flashes,
                              Flash("error", "Error uploading", file.filename))]
                    ELSE [fs |-> one.fs, count |-> acc.count + 1,
                          flashes |-> acc.flashes])
             ELSE UploadLoop(files, target_path, i + 1,
                    [fs |-> acc.fs, count |-> acc.count,
                     flashes |-> Append(acc.flashes,
                         Flash("error", "File type not allowed", file.filename))])

upload_file(f, uploaded_files, target_path) ==
    LET done == UploadLoop(uploaded_files, target_path, 1,
                           [fs |-> f, count |-> 0, flashes |-> <<>>])
    IN  IF uploaded_files = <<>> \/ uploaded_files[1].filename = <<>>
        THEN Outcome(f, Redirect("index", target_path,
                 <<Flash("warning", "No file(s) selected", <<>>)>>))
        ELSE Outcome(done.fs,
                 [kind |-> "redirect", to |-> [route |-> "index", path |-> target_path],
                  flashes |-> IF done.count > 0
                              THEN Append(done.flashes,
                                       Flash("success", "Successfully uploaded", <<>>))
                              ELSE done.flashes,
                  at |-> <<>>, count |-> done.count, rm |-> "none"])

(***************************************************************************)
(* The inputs a client sends                                               *)
(***************************************************************************)
MaxSegs == 2
MaxFiles == 3
MaxNameLen == 4

SeqsUpTo(S, n) == UNION {[1..k -> S] : k \in 1..n}

APng == <<"a",".","p","n","g">>
NYml == <<"n",".","y","m","l">>
BSvg == <<"b",".","s","v","g">>
UpAPng == <<".",".","/","a",".","p","n","g">>
UpImages == <<".",".","/","I","m","a","g","e","s">>

\* the segments a request path is made of
Segs == {DotDot, Dot, Images, APng, AppPy}

\* relative paths, split at "/"
RawPaths == SeqsUpTo(Segs, MaxSegs)

\* the values of the form field current_path of an upload
ReturnPaths == {<<>>, <<Images>>, <<DotDot>>}

\* the values of the form field folder_name (<<>>: missing or empty)
FolderNames == {<<>>, Images, UpImages}

\* the (filename, bytes) pairs of an upload
UploadItems ==
    { [filename |-> UpAPng, data |-> 1], [filename |-> NYml, data |-> 2],
      [filename |-> BSvg, data |-> 3], [filename |-> <<>>, data |-> 4] }

UploadLists == SeqsUpTo(UploadItems, MaxFiles)

\* the filenames get_category_folder is applied to
ClassifyChars == {"a", ".", "p", "P", "n", "g"}

TableExtensions ==
    UNION {Range(FILE_CATEGORIES[i].extensions) : i \in DOMAIN FILE_CATEGORIES}

Upper(s) ==
    [i \in DOMAIN s |->
        IF \E k \in DOMAIN LowerCase : LowerCase[k] = s[i]
        THEN UpperCase[CHOOSE k \in DOMAIN LowerCase : LowerCase[k] = s[i]]
        ELSE s[i]]

ClassifyNames ==
    SeqsUpTo(ClassifyChars, MaxNameLen) \cup {<<>>}
    \cup {<<"a">> \o e : e \in TableExtensions}
    \cup {<<"a">> \o Upper(e) : e \in TableExtensions}
    \cup {<<"a", ".", "b">> \o e : e \in TableExtensions}
    \cup {<<"n","o","e","x","t">>, <<"a",".","y","m","l">>, <<"a",".","e","x","e">>}

(***************************************************************************)
(* Initial states                                                          *)
(***************************************************************************)
\* uploads/ as an earlier run left it: one image in its category folder;
\* app.py lies next to uploads/ in BASE_DIR
Populated ==
    (<<>> :> DirEntry) @@ (UPLOAD_PATH :> DirEntry) @@ (<<AppPy>> :> FileEntry(0))
    @@ (UPLOAD_PATH \o <<Images>> :> DirEntry)
    @@ (UPLOAD_PATH \o <<Images, APng>> :> FileEntry(0))

\* an empty uploads/ but for Images, a symbolic link to BASE_DIR
Linked ==
    (<<>> :> DirEntry) @@ (UPLOAD_PATH :> DirEntry) @@ (<<AppPy>> :> FileEntry(0))
    @@ (UPLOAD_PATH \o <<Images>> :> LinkEntry(BASE_DIR))

NoRequest == Request("none", <<>>, <<>>, <<>>)

NoResp ==
    [req |-> NoRequest, kind |-> "none", to |-> NoTarget, flashes |-> <<>>,
     at |-> <<>>, count |-> 0, rm |-> "none"]

NoPrev == [again |-> FALSE, flashes |-> <<>>]

\* UPLOAD_PATH.mkdir(exist_ok=True) has run: uploads/ exists
Init ==
    /\ fs \in {Populated, Linked}
    /\ resp = NoResp
    /\ prev = NoPrev
    /\ cfile = <<>>
    /\ cres = <<>>

(***************************************************************************)
(* Actions: one per route, and what the client does with a response        *)
(***************************************************************************)
Serve(f, r) ==
    CASE r.op = "index" -> index(f, r.path)
      [] r.op = "upload_file" -> upload_file(f, r.files, r.path)
      [] r.op = "download_file" -> download_file(f, r.path)
      [] r.op = "delete_file" -> delete_file(f, r.path)
      [] r.op = "create_folder" -> create_folder(f, r.folder_name, r.path)

Answer(r, o) ==
    [req |-> r, kind |-> o.kind, to |-> o.to, flashes |-> o.flashes,
     at |-> o.at, count |-> o.count, rm |-> o.rm]

Handle(r, p) ==
    LET o == Serve(fs, r)
    IN
    /\ fs' = o.fs
    /\ resp' = Answer(r, o.resp)
    /\ prev' = p
    /\ UNCHANGED <<cfile, cres>>

Idle == resp.kind = "none"

Index ==
    /\ Idle
    /\ \E req_path \in RawPaths \cup {<<>>} :
           Handle(Request("index", req_path, <<>>, <<>>), NoPrev)

Upload ==
    /\ Idle
    /\ \E files \in UploadLists, target_path \in ReturnPaths :
           Handle(Request("upload_file", target_path, files, <<>>), NoPrev)

Download ==
    /\ Idle
    /\ \E filename \in RawPaths :
           Handle(Request("download_file", filename, <<>>, <<>>), NoPrev)

Delete ==
    /\ Idle
    /\ \E filename \in RawPaths :
           Handle(Request("delete_file", filename, <<>>, <<>>), NoPrev)

CreateFolder ==
    /\ Idle
    /\ \E folder_name \in FolderNames, target_path \in RawPaths \cup {<<>>} :
           Handle(Request("create_folder", target_path, <<>>, folder_name), NoPrev)

\* the client requests the Location of a redirect as it was sent
FollowRedirect ==
    /\ resp.kind = "redirect"
    /\ Handle(Request(resp.to.route, resp.to.path, <<>>, <<>>), NoPrev)

\* the client submits the create-folder form it has just been answered once
\* more
Resubmit ==
    /\ resp.req.op = "create_folder"
    /\ Handle(resp.req, [again |-> TRUE, flashes |-> resp.flashes])

\* the client is done with the response
Done ==
    /\ ~Idle
    /\ resp' = NoResp
    /\ prev' = NoPrev
    /\ UNCHANGED <<fs, cfile, cres>>

Next ==
    \/ Index
    \/ Upload
    \/ Download
    \/ Delete
    \/ CreateFolder
    \/ FollowRedirect
    \/ Resubmit
    \/ Done

Spec == Init /\ [][Next]_vars

(***************************************************************************)
(* get_category_folder on its own                                          *)
(***************************************************************************)
InitClassify ==
    /\ fs = Populated
    /\ resp = NoResp
    /\ prev = NoPrev
    /\ cfile \in ClassifyNames
    /\ cres = <<>>

Classify ==
    /\ cres = <<>>
    /\ cres' = get_category_folder(cfile)
    /\ UNCHANGED <<fs, resp, prev, cfile>>

NextClassify == Classify

SpecClassify == InitClassify /\ [][NextClassify]_vars

(***************************************************************************)
(* Properties                                                              *)
(***************************************************************************)
HasFlash(flashes, text) == \E i \in DOMAIN flashes : flashes[i].text = text

CountFlashes(flashes, text) ==
    Cardinality({i \in DOMAIN flashes : flashes[i].text = text})

Confined(f, parts) ==
    is_relative_to(Resolve(f, <<>>, UPLOAD_PATH \o PathParts(parts)), UPLOAD_PATH)

\* the entries that differ between two trees
Changed(f, g) ==
    {q \in DOMAIN f \cup DOMAIN g :
        q \notin DOMAIN f \/ q \notin DOMAIN g \/ f[q] # g[q]}

\* where the kernel finds the entry a path names
Where(f, lex) == Locate(f, <<>>, lex, TRUE).at

\* C1: a delete or create-folder request whose path resolves outside
\* UPLOAD_PATH is rejected with a security error and changes nothing, and no
\* request of any kind creates, overwrites or removes an entry outside
\* UPLOAD_PATH.
NothingOutsideRootChanges ==
    [][ /\ \A q \in Changed(fs, fs') : is_relative_to(q, UPLOAD_PATH)
        /\ ( /\ resp'.req.op \in {"delete_file", "create_folder"}
             /\ (resp'.req.op = "create_folder" => resp'.req.folder_name # <<>>)
             /\ ~Confined(fs, resp'.req.path) )
           => /\ HasFlash(resp'.flashes, "Security Error")
              /\ fs' = fs ]_vars

\* C2: a file is streamed only if its resolved path lies under UPLOAD_PATH.
DownloadIsConfined ==
    resp.kind = "stream" => is_relative_to(resp.at, UPLOAD_PATH)

AllowedIn(files) ==
    {i \in DOMAIN files : files[i].filename # <<>> /\ allowed_file(files[i].filename)}

\* C3: in an upload, no pair keeps another from being processed: every pair
\* with an allowed extension is saved and counted or reported as failed, and
\* every other pair is reported.
UploadProcessesEveryPair ==
    (resp.req.op = "upload_file" /\ resp.req.files # <<>>)
    => /\ resp.count + CountFlashes(resp.flashes, "Error uploading")
              = Cardinality(AllowedIn(resp.req.files))
       /\ \/ CountFlashes(resp.flashes, "File type not allowed")
                 = Len(resp.req.files) - Cardinality(AllowedIn(resp.req.files))
          \/ HasFlash(resp.flashes, "No file(s) selected")

SavedAt(f, file) ==
    Where(f, UPLOAD_PATH \o <<get_category_folder(file.filename)>>)
        \o <<secure_filename(file.filename)>>

SavedIn(files, flashes) ==
    {i \in AllowedIn(files) :
        \A k \in DOMAIN flashes :
            ~(flashes[k].text = "Error uploading" /\ flashes[k].arg = files[i].filename)}

\* C4: whatever the return-to path, an upload changes nothing but, for some
\* allowed file of the request, the folder UPLOAD_PATH/<category> (created
\* when absent) and the file <sanitized name> in it; every file it reports no
\* error for is counted and is there afterwards, holding the bytes of the last
\* pair of the request that names it.
UploadLandsInCategory ==
    [][ resp'.req.op = "upload_file" =>
        LET files == resp'.req.files
            saved == IF HasFlash(resp'.flashes, "No file(s) selected")
                     THEN {}
                     ELSE SavedIn(files, resp'.flashes)
        IN  /\ \A q \in Changed(fs, fs') :
                  \E i \in AllowedIn(files) :
                      \/ /\ q = UPLOAD_PATH \o <<get_category_folder(files[i].filename)>>
                         /\ q \notin DOMAIN fs
                         /\ fs'[q] = DirEntry
                      \/ /\ i \in saved
                         /\ q = SavedAt(fs', files[i])
            /\ resp'.count = Cardinality(saved)
            /\ \A i \in saved :
                  /\ SavedAt(fs', files[i]) \in DOMAIN fs'
                  /\ \E j \in saved :
                        /\ SavedAt(fs', files[j]) = SavedAt(fs', files[i])
                        /\ \A k \in saved :
                              SavedAt(fs', files[k]) = SavedAt(fs', files[i]) => k <= j
                        /\ fs'[SavedAt(fs', files[i])] = FileEntry(files[j].data) ]_vars

UploadLandsInCategoryWitness ==
    /\ resp.req.op = "upload_file"
    /\ resp.req.path = <<DotDot>>
    /\ Len(resp.req.files) = 3
    /\ resp.count = 2
    /\ UPLOAD_PATH \o <<Images, APng>> \in DOMAIN fs
    /\ fs[UPLOAD_PATH \o <<Images, APng>>] = FileEntry(1)
    /\ UPLOAD_PATH \o <<Others, NYml>> \in DOMAIN fs

\* C5: a create-folder request that succeeded and is sent again right away is
\* answered "already exists" and leaves the tree as it was.
CreateFolderTwice ==
    [][ ( /\ resp'.req.op = "create_folder"
          /\ prev'.again
          /\ HasFlash(prev'.flashes, "Folder created") )
        => /\ HasFlash(resp'.flashes, "Folder already exists")
           /\ ~HasFlash(resp'.flashes, "Folder created")
           /\ fs' = fs ]_vars

CreateFolderTwiceWitness ==
    /\ resp.req.op = "create_folder"
    /\ resp.req.folder_name = UpImages
    /\ prev.again
    /\ HasFlash(prev.flashes, "Folder created")
    /\ HasFlash(resp.flashes, "Folder already exists")
    /\ UPLOAD_PATH \o <<Images, Images>> \in DOMAIN fs

\* C6: a delete request whose confined target is neither a file nor a
\* directory is answered with an error message and changes nothing.
DeleteMissingIsReported ==
    [][ ( /\ resp'.req.op = "delete_file"
          /\ Confined(fs, resp'.req.path)
          /\ ~exists(fs, UPLOAD_PATH \o PathParts(resp'.req.path)) )
        => /\ fs' = fs
           /\ \E i \in DOMAIN resp'.flashes : resp'.flashes[i].category = "error" ]_vars

\* C7: a browse request whose path fails confinement or does not exist is
\* answered with a message and a redirect to the root listing, never with a
\* redirect to the failing path itself.
BrowseFallsBackToRoot ==
    ( /\ resp.req.op = "index"
      /\ \/ ~Confined(fs, resp.req.path)
         \/ ~exists(fs, UPLOAD_PATH \o PathParts(resp.req.path)) )
    => /\ resp.kind = "redirect"
       /\ resp.flashes # <<>>
       /\ resp.to = [route |-> "index", path |-> <<>>]

Labels == {Images, Documents, Videos, Archives, Others}

LastDot(s) ==
    IF \E i \in DOMAIN s : s[i] = "."
    THEN CHOOSE i \in DOMAIN s : s[i] = "." /\ \A j \in DOMAIN s : j > i => s[j] # "."
    ELSE 0

Token(s) == <<".">> \o [k \in 1..(Len(s) - LastDot(s)) |-> LowerChar(s[LastDot(s) + k])]

Holders(s) ==
    {i \in DOMAIN FILE_CATEGORIES :
        LastDot(s) > 0 /\ Token(s) \in Range(FILE_CATEGORIES[i].extensions)}

\* C8: get_category_folder returns one of the five labels: the category whose
\* extensions hold "." followed by the lower-cased text after the last ".",
\* Others when there is no "." or no category holds it.
ClassifyIsTotal ==
    cres # <<>> =>
        /\ cres \in Labels
        /\ Cardinality(Holders(cfile)) <= 1
        /\ \A i \in Holders(cfile) : cres = FILE_CATEGORIES[i].folder
        /\ Holders(cfile) = {} => cres = Others

ClassifyIsTotalWitness ==
    /\ cfile = <<"a", ".", "P", "N", "G">>
    /\ cres = Images

\* C9: every request ends in a listing, a file stream or a redirect; no error
\* leaves a handler as an exception or an error page.
NoErrorEscapes == resp.kind \in {"none", "redirect", "listing", "stream"}

\* C10: UPLOAD_PATH exists in every state, and no delete request whose path
\* resolves to UPLOAD_PATH itself hands it to a recursive removal.
RootSurvives ==
    /\ UPLOAD_PATH \in DOMAIN fs
    /\ fs[UPLOAD_PATH].kind = "dir"
    /\ ~(resp.req.op = "delete_file" /\ resp.at = UPLOAD_PATH /\ resp.rm = "rmtree")

====
